---- MODULE Spec2Model ----
(***************************************************************************)
(* Model of packages/frontend/src/scripts/sound.ts: the audio-buffer       *)
(* cache, the loader, the playback entry points and the play lock.         *)
(*                                                                         *)
(* The module is single-threaded JavaScript: every action below is one     *)
(* run-to-completion piece of code, i.e. the synchronous part of an entry  *)
(* point up to its first pending await, or the continuation that runs      *)
(* when an awaited operation (fetch, arrayBuffer, decodeAudioData, timer)  *)
(* settles.  The settings store, document.visibilityState and              *)
(* navigator.userActivation belong to other modules; the value each call   *)
(* reads from them is an input of the call.                                *)
(***************************************************************************)
EXTENDS Integers, Sequences, FiniteSets, TLC

\* ---------------------------------------------------------------- bounds
\* number of entry-point invocations in one behaviour of Spec, SpecLoad,
\* SpecPolicy and SpecSfx
MaxCalls == 2
MaxLoads == 3
MaxPlays == 2
MaxSfx == 3
\* ... and of SpecUrl
MaxUrlPlays == 2
\* ... and of SpecSfxFair
MaxFairSfx == 3
\* volumes are the levels 0/VolSteps .. VolSteps/VolSteps of [0,1]
VolSteps == 2
\* largest amount of time (ms) one Tick lets pass
TimeStep == 9

\* ------------------------------------------------------------- constants
\* delay of the timer that releases the play lock (setTimeout(..., 25))
Cooldown == 25

Null == "null"
DriveFile == "_driveFile_"
\* three entries of the catalogue: no sound, drive file, one bundled sound
soundsTypes == {Null, DriveFile, "syuilo/triple"}
operationTypes == {"noteMy", "note", "antenna", "channel", "notification", "reaction"}

\* stored URLs of a drive-file descriptor ("" is the empty URL)
FileUrls == {"", "https://drive/a.mp3"}

Undefined == -1
Volumes == 0..VolSteps

\* SoundStore: { type, volume } or { type: '_driveFile_', fileUrl, volume }
SoundStores ==
    [type : soundsTypes \ {DriveFile}, fileUrl : {""}, volume : Volumes]
        \cup [type : {DriveFile}, fileUrl : FileUrls, volume : Volumes]

\* the part of defaultStore.state that isMute and playMisskeySfxFile read
StoreStates ==
    [sound_masterVolume : Volumes,
     sound_notUseSound : BOOLEAN,
     sound_useSoundOnlyWhenActive : BOOLEAN]

VisibilityStates == {"visible", "hidden"}

\* navigator: whether it has userActivation, and userActivation.hasBeenActive
Navigators ==
    {[hasUserActivation |-> FALSE, hasBeenActive |-> FALSE],
     [hasUserActivation |-> TRUE, hasBeenActive |-> FALSE],
     [hasUserActivation |-> TRUE, hasBeenActive |-> TRUE]}

\* the url playMisskeySfxFile hands to loadAudio
SoundUrl(soundStore) ==
    IF soundStore.type = DriveFile
    THEN soundStore.fileUrl
    ELSE "/client-assets/sounds/" \o soundStore.type \o ".mp3"

Urls == {SoundUrl(s) : s \in {t \in SoundStores : t.type # Null}} \ {""}

\* an AudioBuffer: the url it was decoded from and its identity
NoBuffer == [url |-> "", id |-> 0]

VARIABLES
    ctx,          \* number of AudioContext objects created (0: ctx is unset)
    cache,        \* the Map url -> AudioBuffer
    canPlay,      \* the play lock
    calls,        \* the asynchronous activations, in order of invocation
    decoded,      \* number of AudioBuffers decodeAudioData has produced
    sinceSfxLoad, \* ms since a playMisskeySfx call last reached loadAudio, up to Cooldown
    ncalls,       \* number of entry-point invocations so far
    last,         \* the arguments and reads of the latest invocation
    probes        \* the getSoundDuration activations, in order of invocation

vars == <<ctx, cache, canPlay, calls, decoded, sinceSfxLoad, ncalls, last, probes>>

NoLast ==
    [op |-> "none", url |-> "", useCache |-> TRUE,
     sound |-> [type |-> Null, fileUrl |-> "", volume |-> 0],
     store |-> [sound_masterVolume |-> 0, sound_notUseSound |-> FALSE,
                sound_useSoundOnlyWhenActive |-> FALSE],
     visibilityState |-> "visible",
     navigator |-> [hasUserActivation |-> FALSE, hasBeenActive |-> FALSE],
     canPlay |-> TRUE, volume |-> Undefined]

Init ==
    /\ ctx = 0
    /\ cache = << >>
    /\ canPlay = TRUE
    /\ calls = << >>
    /\ decoded = 0
    /\ sinceSfxLoad = Cooldown
    /\ ncalls = 0
    /\ last = NoLast
    /\ probes = << >>


\* ------------------------------------------------------------ call records
\* kind: the entry point; pc: where the activation is suspended
\*   "fetch"    awaiting fetch(url)                      (l.101)
\*   "body"     awaiting response.arrayBuffer()          (l.106)
\*   "decode"   awaiting ctx.decodeAudioData(...)        (l.107)
\*   "loaded"   loadAudio has returned, the caller's continuation is queued
\*   "settled"  playMisskeySfxFile's promise settled, finally callback queued
\*   "cooldown" the 25 ms timer is pending (remaining: ms left)
\*   "done"     nothing left to run
\* fetches, fail, gain, started and outcome record what the activation did.
Call(kind, pc, url, useCache, volume, masterVolume, buffer, fetches, outcome) ==
    [kind |-> kind, pc |-> pc, url |-> url, useCache |-> useCache,
     volume |-> volume, masterVolume |-> masterVolume, buffer |-> buffer,
     fetches |-> fetches, fail |-> "none", gain |-> Undefined,
     started |-> FALSE, remaining |-> 0, outcome |-> outcome]

\* ------------------------------------------------------------------ isMute
\* isMute without the visibility test
isMuteWheneverOnlyWhenActive(store, visibilityState) ==
    store.sound_notUseSound \/ store.sound_useSoundOnlyWhenActive

\* l.213-226
isMute(store, visibilityState) ==
    IF store.sound_notUseSound
    THEN TRUE
    ELSE IF store.sound_useSoundOnlyWhenActive /\ visibilityState = "hidden"
         THEN TRUE
         ELSE FALSE

\* --------------------------------------------------------------- loadAudio
\* ctx left as it is, unset or not
NoCtxCreated(n) == n

\* a context created by every load
NewCtxEveryLoad(n) == n + 1

\* l.89-91: the number of contexts after the lazy creation
EnsureCtx(n) == IF n = 0 THEN n + 1 ELSE n

\* the cache never consulted
CacheMiss(useCache, c, url) == FALSE

\* l.92-96: the early return from the cache
CacheHit(useCache, c, url) == useCache /\ url \in DOMAIN c

\* the buffer stored whatever useCache says
CacheStoreAlways(useCache, c, url, audioBuffer) ==
    [k \in DOMAIN c \cup {url} |-> IF k = url THEN audioBuffer ELSE c[k]]

\* the buffer stored only when the url has no entry yet
CacheStoreIfAbsent(useCache, c, url, audioBuffer) ==
    IF useCache /\ url \notin DOMAIN c
    THEN [k \in DOMAIN c \cup {url} |-> IF k = url THEN audioBuffer ELSE c[k]]
    ELSE c

\* the buffer stored as the only entry
CacheStoreAlone(useCache, c, url, audioBuffer) ==
    IF useCache THEN [k \in {url} |-> audioBuffer] ELSE c

\* an entry stored with nothing in it
CacheStoreEmpty(useCache, c, url, audioBuffer) ==
    IF useCache
    THEN [k \in DOMAIN c \cup {url} |-> IF k = url THEN NoBuffer ELSE c[k]]
    ELSE c

\* l.109-111: the cache after a successful decode
CacheStore(useCache, c, url, audioBuffer) ==
    IF useCache
    THEN [k \in DOMAIN c \cup {url} |-> IF k = url THEN audioBuffer ELSE c[k]]
    ELSE c

\* l.87-101, the synchronous part of loadAudio called from `kind`: create the
\* context, return the cached buffer or issue the fetch.  A cache hit returns
\* at once: a direct caller's promise is resolved, a play entry point's
\* continuation is queued.
StartLoad(kind, url, useCache, volume, masterVolume) ==
    /\ ctx' = EnsureCtx(ctx)
    /\ IF CacheHit(useCache, cache, url)
       THEN calls' = Append(calls,
                Call(kind, IF kind = "loadAudio" THEN "done" ELSE "loaded", url,
                     useCache, volume, masterVolume, cache[url], 0,
                     IF kind = "loadAudio" THEN "resolved" ELSE "pending"))
       ELSE calls' = Append(calls,
                Call(kind, "fetch", url, useCache, volume, masterVolume,
                     NoBuffer, 1, "pending"))

\* a failure swallowed: the activation ends as if loadAudio had returned
\* nothing
Swallowed(c, why) ==
    [c EXCEPT !.pc = IF c.kind = "loadAudio" THEN "done" ELSE "loaded",
              !.fail = why,
              !.outcome = IF c.kind = "loadAudio" THEN "resolved" ELSE "pending"]

\* a rejection after which no callback runs, as if the timer were set in a
\* then callback
RejectedWithoutFinally(c, why) ==
    [c EXCEPT !.pc = "done", !.fail = why, !.outcome = "rejected"]

\* what is left of a play call when its loadAudio rejects: the await throws,
\* the async function rejects; playMisskeySfx's finally callback is queued
Rejected(c, why) ==
    [c EXCEPT !.pc = IF c.kind = "playMisskeySfx" THEN "settled" ELSE "done",
              !.fail = why, !.outcome = "rejected"]

\* loadAudio returns `buffer` (NoBuffer: undefined)
Returned(c, buffer, why) ==
    IF c.kind = "loadAudio"
    THEN [c EXCEPT !.pc = "done", !.buffer = buffer, !.fail = why,
                   !.outcome = "resolved"]
    ELSE [c EXCEPT !.pc = "loaded", !.buffer = buffer, !.fail = why]

\* l.100-104: fetch settles; a rejection is caught and loadAudio returns
FetchSettled(c, ok) ==
    IF ok THEN [c EXCEPT !.pc = "body"] ELSE Returned(c, NoBuffer, "fetch")

\* l.106: response.arrayBuffer() settles; a rejection is not caught
BodySettled(c, ok) ==
    IF ok THEN [c EXCEPT !.pc = "decode"] ELSE Rejected(c, "body")

\* direct call of the exported loadAudio(url, { useCache })
LoadAudio(url, useCache) ==
    /\ ncalls' = ncalls + 1
    /\ last' = [NoLast EXCEPT !.op = "loadAudio", !.url = url,
                              !.useCache = useCache]
    /\ StartLoad("loadAudio", url, useCache, Undefined, 0)
    /\ UNCHANGED <<cache, canPlay, decoded, sinceSfxLoad, probes>>

FetchSettle(i, ok) ==
    /\ i \in DOMAIN calls
    /\ calls[i].pc = "fetch"
    /\ calls' = [calls EXCEPT ![i] = FetchSettled(calls[i], ok)]
    /\ UNCHANGED <<ctx, cache, canPlay, decoded, sinceSfxLoad, ncalls, last, probes>>

BodySettle(i, ok) ==
    /\ i \in DOMAIN calls
    /\ calls[i].pc = "body"
    /\ calls' = [calls EXCEPT ![i] = BodySettled(calls[i], ok)]
    /\ UNCHANGED <<ctx, cache, canPlay, decoded, sinceSfxLoad, ncalls, last, probes>>

\* l.107-113: decodeAudioData resolves with a new AudioBuffer
DecodeOk(i) ==
    /\ i \in DOMAIN calls
    /\ calls[i].pc = "decode"
    /\ LET audioBuffer == [url |-> calls[i].url, id |-> decoded + 1]
       IN /\ decoded' = decoded + 1
          /\ cache' = CacheStore(calls[i].useCache, cache, calls[i].url, audioBuffer)
          /\ calls' = [calls EXCEPT ![i] = Returned(calls[i], audioBuffer, "none")]
    /\ UNCHANGED <<ctx, canPlay, sinceSfxLoad, ncalls, last, probes>>

\* l.107: decodeAudioData rejects; nothing catches it
DecodeFail(i) ==
    /\ i \in DOMAIN calls
    /\ calls[i].pc = "decode"
    /\ calls' = [calls EXCEPT ![i] = Rejected(calls[i], "decode")]
    /\ UNCHANGED <<ctx, cache, canPlay, decoded, sinceSfxLoad, ncalls, last, probes>>


\* ------------------------------------------------------ playMisskeySfxFile
\* the early returns without the two volume tests
NoPlayIgnoringVolume(soundStore, store, visibilityState) ==
    \/ soundStore.type = Null
    \/ (soundStore.type = DriveFile /\ soundStore.fileUrl = "")
    \/ isMute(store, visibilityState)

\* l.138-144: the two early returns
NoPlay(soundStore, store, visibilityState) ==
    \/ soundStore.type = Null
    \/ (soundStore.type = DriveFile /\ soundStore.fileUrl = "")
    \/ isMute(store, visibilityState)
    \/ store.sound_masterVolume = 0
    \/ soundStore.volume = 0

\* the descriptor's volume alone, the master volume taken as 1
DescriptorVolumeOnly(volume, masterVolume) == volume * VolSteps

\* l.148: soundStore.volume * masterVolume, in units of 1/VolSteps^2
EffectiveVolume(volume, masterVolume) == volume * masterVolume

\* l.179: gainNode.gain.value = opts.volume ?? 1, in units of 1/VolSteps^2
GainValue(volume) == IF volume = Undefined THEN VolSteps * VolSteps ELSE volume

\* the volume option the play entry point `c` hands to createSourceNode
\* (l.148-149 for playMisskeySfxFile, l.162 for playUrl, whose opts.volume
\* is a level of Volumes or undefined)
VolumeOption(c) ==
    IF c.kind = "playUrl"
    THEN IF c.volume = Undefined THEN Undefined ELSE c.volume * VolSteps
    ELSE EffectiveVolume(c.volume, c.masterVolume)

\* the play entry point `c` returns: its promise resolves
Resolved(c) ==
    [c EXCEPT !.pc = IF c.kind = "playMisskeySfx" THEN "settled" ELSE "done",
              !.outcome = "resolved"]

\* l.147-149 and l.161-162: after `await loadAudio(url)`
AfterLoad(c) ==
    IF c.buffer = NoBuffer
    THEN Resolved(c)
    ELSE Resolved([c EXCEPT !.gain = GainValue(VolumeOption(c)), !.started = TRUE])

\* l.137-146, the synchronous part of playMisskeySfxFile called from `kind`
StartFile(kind, soundStore, store, visibilityState) ==
    IF NoPlay(soundStore, store, visibilityState)
    THEN /\ ctx' = ctx
         /\ calls' = IF kind = "playMisskeySfx"
                     THEN Append(calls,
                              Call(kind, "settled", "", TRUE, soundStore.volume,
                                   store.sound_masterVolume, NoBuffer, 0, "resolved"))
                     ELSE calls
    ELSE StartLoad(kind, SoundUrl(soundStore), TRUE, soundStore.volume,
                   store.sound_masterVolume)

PlayMisskeySfxFile(soundStore, store, visibilityState) ==
    /\ ncalls' = ncalls + 1
    /\ last' = [NoLast EXCEPT !.op = "playMisskeySfxFile", !.sound = soundStore,
                              !.store = store, !.visibilityState = visibilityState]
    /\ StartFile("playMisskeySfxFile", soundStore, store, visibilityState)
    /\ UNCHANGED <<cache, canPlay, decoded, sinceSfxLoad, probes>>

\* the continuation of a play entry point after its loadAudio returned
Continue(i) ==
    /\ i \in DOMAIN calls
    /\ calls[i].pc = "loaded"
    /\ calls' = [calls EXCEPT ![i] = AfterLoad(calls[i])]
    /\ UNCHANGED <<ctx, cache, canPlay, decoded, sinceSfxLoad, ncalls, last, probes>>

\* ----------------------------------------------------------------- playUrl
\* the early return widened to the mute policy, the master volume and the
\* play lock
UrlSkipLikeSfx(volume, store, visibilityState, lock) ==
    \/ volume = 0
    \/ isMute(store, visibilityState)
    \/ store.sound_masterVolume = 0
    \/ ~lock

\* l.157-159: the early return; the settings, the visibility and the play
\* lock at the time of the call are not read
UrlSkip(volume, store, visibilityState, lock) == volume = 0

\* l.152-163; opts.pan and opts.playbackRate do not affect control flow.
\* store and visibilityState are the settings and the visibility at the time
\* of the call.
PlayUrl(url, volume, store, visibilityState) ==
    /\ ncalls' = ncalls + 1
    /\ last' = [NoLast EXCEPT !.op = "playUrl", !.url = url, !.volume = volume,
                              !.store = store, !.visibilityState = visibilityState,
                              !.canPlay = canPlay]
    /\ IF UrlSkip(volume, store, visibilityState, canPlay)
       THEN UNCHANGED <<ctx, calls>>
       ELSE StartLoad("playUrl", url, TRUE, volume, 0)
    /\ UNCHANGED <<cache, canPlay, decoded, sinceSfxLoad, probes>>

\* ---------------------------------------------------------- playMisskeySfx
\* the early return without the user-activation test
BlockedIgnoringActivation(sound, lock, navigator) ==
    \/ sound.type = Null
    \/ ~lock

\* the early return without the test of the lock
BlockedIgnoringLock(sound, lock, navigator) ==
    \/ sound.type = Null
    \/ (navigator.hasUserActivation /\ ~navigator.hasBeenActive)

\* l.122: the early return
Blocked(sound, lock, navigator) ==
    \/ sound.type = Null
    \/ ~lock
    \/ (navigator.hasUserActivation /\ ~navigator.hasBeenActive)

\* the lock left as it was
LockNotTaken == TRUE

\* l.124: the value canPlay is given when the call goes ahead
Acquire == FALSE

\* l.127-129: the delay of the timer that sets canPlay again
TimerDelay == Cooldown

\* l.120-125; sound is defaultStore.state[`sound_${operationType}`]
PlayMisskeySfx(operationType, sound, store, visibilityState, navigator) ==
    /\ ncalls' = ncalls + 1
    /\ last' = [NoLast EXCEPT !.op = "playMisskeySfx", !.sound = sound,
                              !.store = store, !.visibilityState = visibilityState,
                              !.navigator = navigator, !.canPlay = canPlay]
    /\ IF Blocked(sound, canPlay, navigator)
       THEN UNCHANGED <<ctx, canPlay, calls, sinceSfxLoad>>
       ELSE /\ canPlay' = Acquire
            /\ StartFile("playMisskeySfx", sound, store, visibilityState)
            /\ sinceSfxLoad' = IF NoPlay(sound, store, visibilityState)
                               THEN sinceSfxLoad ELSE 0
    /\ UNCHANGED <<cache, decoded, probes>>

\* l.125-127: the finally callback runs and sets the timer
Finally(i) ==
    /\ i \in DOMAIN calls
    /\ calls[i].pc = "settled"
    /\ calls' = [calls EXCEPT ![i].pc = "cooldown", ![i].remaining = TimerDelay]
    /\ UNCHANGED <<ctx, cache, canPlay, decoded, sinceSfxLoad, ncalls, last, probes>>

\* l.128: the timer fires
TimerFire(i) ==
    /\ i \in DOMAIN calls
    /\ calls[i].pc = "cooldown"
    /\ calls[i].remaining = 0
    /\ canPlay' = TRUE
    /\ calls' = [calls EXCEPT ![i].pc = "done"]
    /\ UNCHANGED <<ctx, cache, decoded, sinceSfxLoad, ncalls, last, probes>>

\* -------------------------------------------------------------------- time
Min(a, b) == IF a < b THEN a ELSE b

Timers == {i \in DOMAIN calls : calls[i].pc = "cooldown"}

\* the time that passes in one step: TimeStep ms, or less when a timer is due
\* sooner (a timer fires no later than its delay)
Step == IF Timers = {} THEN TimeStep
        ELSE Min(TimeStep, calls[CHOOSE i \in Timers :
                               \A j \in Timers : calls[i].remaining <= calls[j].remaining].remaining)

Tick ==
    /\ Step > 0
    /\ Timers # {} \/ sinceSfxLoad < Cooldown
    /\ calls' = [i \in DOMAIN calls |->
                    IF i \in Timers
                    THEN [calls[i] EXCEPT !.remaining = @ - Step]
                    ELSE calls[i]]
    /\ sinceSfxLoad' = Min(Cooldown, sinceSfxLoad + Step)
    /\ UNCHANGED <<ctx, cache, canPlay, decoded, ncalls, last, probes>>

\* --------------------------------------------------------- getSoundDuration
MaxProbes == 2
MaxPolls == 2

\* HTMLMediaElement.readyState: HAVE_NOTHING (0) up to HAVE_ENOUGH_DATA (4)
ReadyStates == 0..4

\* audioEl.duration in seconds, once the metadata is there
Durations == {2}

\* l.197-206: one activation: the element, the interval, the promise
\*   polls: callbacks run so far (counted up to MaxPolls)
\*   seen:  callbacks that read readyState > 0
Probe(file) ==
    [src |-> file, readyState |-> 0, duration |-> 0,
     interval |-> TRUE, removed |-> FALSE,
     outcome |-> "pending", value |-> 0, polls |-> 0, seen |-> 0]

\* l.197-205: the element and the interval are created, the promise is pending
GetSoundDuration(file) ==
    /\ probes' = Append(probes, Probe(file))
    /\ UNCHANGED <<ctx, cache, canPlay, calls, decoded, sinceSfxLoad, ncalls, last>>

\* the platform loads the media of an element that has a source: readyState
\* rises, the duration is known from HAVE_METADATA on
MediaReady(i, readyState, duration) ==
    /\ probes[i].src # ""
    /\ ~probes[i].removed
    /\ readyState > probes[i].readyState
    /\ probes' = [probes EXCEPT ![i].readyState = readyState,
                                ![i].duration = IF probes[i].readyState = 0
                                                THEN duration ELSE @]
    /\ UNCHANGED <<ctx, cache, canPlay, calls, decoded, sinceSfxLoad, ncalls, last>>

\* the callback when readyState > 0, with the interval left running
PolledWithoutClear(p) ==
    [p EXCEPT !.outcome = "resolved",
              !.value = IF p.outcome = "pending" THEN p.duration * 1000 ELSE @,
              !.removed = TRUE,
              !.seen = @ + 1]

\* l.201-205: the callback when readyState > 0: resolve (a settled promise
\* stays as it is), clearInterval, remove
Polled(p) ==
    [p EXCEPT !.outcome = "resolved",
              !.value = IF p.outcome = "pending" THEN p.duration * 1000 ELSE @,
              !.interval = FALSE,
              !.removed = TRUE,
              !.seen = @ + 1]

\* l.200-206: the interval callback runs, every 100 ms while the interval is set
PollTick(i) ==
    /\ probes[i].interval
    /\ LET p == [probes[i] EXCEPT !.polls = Min(MaxPolls, @ + 1)]
       IN  probes' = [probes EXCEPT ![i] = IF p.readyState > 0 THEN Polled(p) ELSE p]
    /\ UNCHANGED <<ctx, cache, canPlay, calls, decoded, sinceSfxLoad, ncalls, last>>

\* -------------------------------------------------------------------- Next
\* the store with both mute flags off and the master volume at its maximum
LoudStore ==
    [sound_masterVolume |-> VolSteps, sound_notUseSound |-> FALSE,
     sound_useSoundOnlyWhenActive |-> FALSE]

\* the store with notUseSound set
SilentStore == [LoudStore EXCEPT !.sound_notUseSound = TRUE]

\* the descriptors at full volume
LoudSounds == {s \in SoundStores : s.volume = VolSteps}

Active == [hasUserActivation |-> TRUE, hasBeenActive |-> TRUE]

\* the steps of the activations: awaited operations settling, continuations
Settle ==
    \/ \E i \in DOMAIN calls, ok \in BOOLEAN : FetchSettle(i, ok)
    \/ \E i \in DOMAIN calls, ok \in BOOLEAN : BodySettle(i, ok)
    \/ \E i \in DOMAIN calls : DecodeOk(i)
    \/ \E i \in DOMAIN calls : DecodeFail(i)
    \/ \E i \in DOMAIN calls : Continue(i)

Timing ==
    \/ \E i \in DOMAIN calls : Finally(i)
    \/ \E i \in DOMAIN calls : TimerFire(i)
    \/ Tick

\* a drive file at full volume
LoudFile == [type |-> DriveFile, fileUrl |-> "https://drive/a.mp3", volume |-> VolSteps]

\* every entry point, any interleaving
Next ==
    \/ /\ ncalls < MaxCalls
       /\ \/ \E url \in Urls, useCache \in BOOLEAN : LoadAudio(url, useCache)
          \/ \E store \in {LoudStore, SilentStore} :
                PlayMisskeySfxFile(LoudFile, store, "visible")
          \/ \E volume \in {0, Undefined} :
                PlayUrl(LoudFile.fileUrl, volume, SilentStore, "visible")
          \/ \E operationType \in operationTypes,
                sound \in {LoudFile, [LoudFile EXCEPT !.type = Null, !.fileUrl = ""]},
                navigator \in Navigators :
                  PlayMisskeySfx(operationType, sound, LoudStore, "visible", navigator)
    \/ Settle
    \/ Timing

Spec == Init /\ [][Next]_vars


\* the loader and the cache: loadAudio called directly, with and without the
\* cache, and through playMisskeySfxFile
NextLoad ==
    \/ /\ ncalls < MaxLoads
       /\ \/ \E url \in Urls, useCache \in BOOLEAN : LoadAudio(url, useCache)
          \/ PlayMisskeySfxFile(LoudFile, LoudStore, "visible")
    \/ Settle

SpecLoad == Init /\ [][NextLoad]_vars

\* the mute and volume policy: playMisskeySfxFile with every descriptor,
\* every setting and either visibility, the volumes being zero or full
EdgeVolumes == {0, VolSteps}

NextPolicy ==
    \/ /\ ncalls < MaxPlays
       /\ \E soundStore \in {s \in SoundStores : s.volume \in EdgeVolumes},
             store \in {st \in StoreStates : st.sound_masterVolume \in EdgeVolumes},
             visibilityState \in VisibilityStates :
               PlayMisskeySfxFile(soundStore, store, visibilityState)
    \/ Settle

SpecPolicy == Init /\ [][NextPolicy]_vars

\* the gain: playMisskeySfxFile of one drive file with every volume level of
\* the descriptor and of the master volume, the mute flags off
NextVolume ==
    \/ /\ ncalls < MaxPlays
       /\ \E soundStore \in {s \in SoundStores : s.type = DriveFile /\ s.fileUrl # ""},
             masterVolume \in Volumes :
               PlayMisskeySfxFile(soundStore,
                   [LoudStore EXCEPT !.sound_masterVolume = masterVolume], "visible")
    \/ Settle

SpecVolume == Init /\ [][NextVolume]_vars

\* the play lock: playMisskeySfx alone, with time
NextSfx ==
    \/ /\ ncalls < MaxSfx
       /\ \E operationType \in operationTypes, sound \in LoudSounds,
             store \in {LoudStore, SilentStore}, navigator \in Navigators :
               PlayMisskeySfx(operationType, sound, store, "visible", navigator)
    \/ Settle
    \/ Timing

SpecSfx == Init /\ [][NextSfx]_vars


\* playUrl on a hidden page under every mute and master-volume setting, next to
\* playMisskeySfx calls that hold the play lock
MutedStores ==
    {LoudStore, SilentStore, [LoudStore EXCEPT !.sound_masterVolume = 0],
     [LoudStore EXCEPT !.sound_useSoundOnlyWhenActive = TRUE]}

NextUrl ==
    \/ /\ ncalls < MaxUrlPlays
       /\ \/ \E volume \in EdgeVolumes \cup {Undefined}, store \in MutedStores :
                  PlayUrl(LoudFile.fileUrl, volume, store, "hidden")
          \/ \E operationType \in operationTypes :
                PlayMisskeySfx(operationType, LoudFile, LoudStore, "visible", Active)
    \/ Settle
    \/ Timing

SpecUrl == Init /\ [][NextUrl]_vars

\* the play lock when every awaited operation settles and every timer
\* fires: the activations' steps are taken whenever they stay possible
NextSfxFair ==
    \/ /\ ncalls < MaxFairSfx
       /\ \E operationType \in operationTypes, store \in {LoudStore, SilentStore} :
             PlayMisskeySfx(operationType, LoudFile, store, "visible", Active)
    \/ Settle
    \/ Timing

SpecSfxFair ==
    Init /\ [][NextSfxFair]_vars /\ WF_vars(Settle) /\ WF_vars(Timing)

\* the duration probes; the interval callbacks run as long as their interval
\* is set, the platform may or may not ever load the media
Poll == \E i \in DOMAIN probes : PollTick(i)

NextProbe ==
    \/ /\ Len(probes) < MaxProbes
       /\ \E file \in FileUrls : GetSoundDuration(file)
    \/ \E i \in DOMAIN probes, readyState \in ReadyStates, duration \in Durations :
          MediaReady(i, readyState, duration)
    \/ Poll

SpecProbe ==
    Init /\ [][NextProbe]_vars /\ \A i \in 1..MaxProbes : WF_vars(i \in DOMAIN probes /\ PollTick(i))

\* an uploaded file whose stored url changed: the descriptor saved before the
\* change and the one saved after it name the same file by different urls
RotatedUrl == "https://drive/a.mp3?rotated"
RotatedFiles == {LoudFile, [LoudFile EXCEPT !.fileUrl = RotatedUrl]}

\* the uploaded file a url belongs to
FileOf(url) == IF url \in {LoudFile.fileUrl, RotatedUrl} THEN "a" ELSE url

NextRotate ==
    \/ /\ ncalls < MaxLoads
       /\ \/ \E soundStore \in RotatedFiles : LoadAudio(SoundUrl(soundStore), TRUE)
          \/ \E soundStore \in RotatedFiles :
                PlayMisskeySfxFile(soundStore, LoudStore, "visible")
    \/ Settle

SpecRotate == Init /\ [][NextRotate]_vars

\* =================================================================== claims
\* the step is an invocation of entry point `op`
Invoked(op) == ncalls' = ncalls + 1 /\ last'.op = op

\* the step appended an activation; NewCall is its record
Appended == Len(calls') = Len(calls) + 1
NewCall == calls'[Len(calls')]

\* the activation reached loadAudio (it fetched or hit the cache)
ReachedLoad(c) == c.url # ""

\* a cached load that fetched, decoded and stored its buffer
Stored(c) == c.useCache /\ c.fetches = 1 /\ c.buffer # NoBuffer

\* the cached loads of url k that have stored, as indices of calls
StoredLoads(k) == {i \in DOMAIN calls : calls[i].url = k /\ Stored(calls[i])}

\* ----------------------------------------------------------------------- C1
\* C1: a playMisskeySfx call reaches loadAudio only when at least Cooldown
\* (25) ms have passed since the previous playMisskeySfx call that reached
\* it, whatever the operation types; and once every earlier playMisskeySfx
\* activation has run its timer, the lock is free and a call with a sound
\* and an active user goes ahead.
SfxPending == {i \in DOMAIN calls : calls[i].kind = "playMisskeySfx" /\ calls[i].pc # "done"}

C1_Debounce ==
    [][/\ (Appended /\ NewCall.kind = "playMisskeySfx" /\ ReachedLoad(NewCall))
            => sinceSfxLoad >= Cooldown
       /\ (SfxPending = {}) => canPlay
       /\ (/\ Invoked("playMisskeySfx")
           /\ SfxPending = {}
           /\ last'.sound.type # Null
           /\ ~(last'.navigator.hasUserActivation /\ ~last'.navigator.hasBeenActive))
            => /\ Appended
               /\ ~NoPlay(last'.sound, last'.store, last'.visibilityState)
                    => NewCall.pc \in {"fetch", "loaded"}]_vars

\* two playMisskeySfx calls have reached loadAudio, the second one after the
\* first one's cooldown
C1_Witness ==
    \E i, j \in DOMAIN calls :
        /\ i < j
        /\ calls[i].kind = "playMisskeySfx" /\ ReachedLoad(calls[i]) /\ calls[i].pc = "done"
        /\ calls[j].kind = "playMisskeySfx" /\ ReachedLoad(calls[j])

\* ----------------------------------------------------------------------- C2
\* C2 as stated: a cached load of k invoked after a cached load of k has
\* stored its buffer fetches nothing and returns that very buffer.
C2_FirstBuffer ==
    [][(Appended /\ NewCall.useCache)
        => \A i \in StoredLoads(NewCall.url) :
              NewCall.fetches = 0 /\ NewCall.buffer = calls[i].buffer]_vars

\* the buffer stored last under k: ids grow with every decode
LastStored(k) ==
    calls[CHOOSE i \in StoredLoads(k) :
            \A j \in StoredLoads(k) : calls[j].buffer.id <= calls[i].buffer.id].buffer

\* C2 amended: a cached load of k invoked after a cached load of k has
\* stored its buffer fetches and decodes nothing and returns the buffer the
\* cache holds for k, which is the one stored last; that is the first
\* load's buffer when no other cached load of k has stored since.
C2_CachedBuffer ==
    [][(Appended /\ NewCall.useCache /\ StoredLoads(NewCall.url) # {})
        => /\ NewCall.fetches = 0
           /\ NewCall.pc \in {"loaded", "done"}
           /\ decoded' = decoded
           /\ NewCall.buffer = cache[NewCall.url]
           /\ NewCall.buffer = LastStored(NewCall.url)
           /\ Cardinality(StoredLoads(NewCall.url)) = 1
                => \A i \in StoredLoads(NewCall.url) : NewCall.buffer = calls[i].buffer]_vars

\* a second cached load of a url got the buffer the first one stored,
\* without fetching
C2_Witness ==
    \E i, j \in DOMAIN calls :
        /\ i < j
        /\ calls[i].url = calls[j].url
        /\ Stored(calls[i])
        /\ calls[j].useCache /\ calls[j].fetches = 0
        /\ calls[j].buffer = calls[i].buffer

\* ----------------------------------------------------------------------- C3
\* C3: a load with useCache = false fetches even when the cache holds its
\* url, decodes what it fetched, and no step of it changes the cache.
C3_NoCache ==
    [][\A i \in DOMAIN calls' :
          ~calls'[i].useCache =>
            /\ (i \notin DOMAIN calls)
                 => /\ calls'[i].pc = "fetch" /\ calls'[i].fetches = 1
                    /\ cache' = cache
            /\ (i \in DOMAIN calls /\ calls'[i] # calls[i])
                 => /\ cache' = cache
                    /\ calls'[i].fetches = 1
                    /\ (calls'[i].buffer # NoBuffer) => decoded' = decoded + 1]_vars

\* a load without the cache has fetched and decoded its own buffer while the
\* cache holds another buffer for the same url
C3_Witness ==
    \E i \in DOMAIN calls :
        /\ ~calls[i].useCache
        /\ calls[i].pc = "done" /\ calls[i].buffer # NoBuffer /\ calls[i].fetches = 1
        /\ calls[i].url \in DOMAIN cache
        /\ cache[calls[i].url] # calls[i].buffer


\* ----------------------------------------------------------------------- C4
\* the mute policy as the specification words it
MutePolicy(store, visibilityState) ==
    \/ store.sound_notUseSound
    \/ (store.sound_useSoundOnlyWhenActive /\ visibilityState = "hidden")

\* C4: a playMisskeySfxFile call with a "no sound" descriptor, a drive-file
\* descriptor with an empty url, a zero master volume, a zero descriptor
\* volume or a true mute policy starts no activation (no fetch, no graph, no
\* source) and leaves the cache and the context as they are.
C4_NoOp ==
    [][(/\ Invoked("playMisskeySfxFile")
        /\ \/ last'.sound.type = Null
           \/ (last'.sound.type = DriveFile /\ last'.sound.fileUrl = "")
           \/ last'.store.sound_masterVolume = 0
           \/ last'.sound.volume = 0
           \/ MutePolicy(last'.store, last'.visibilityState))
        => /\ calls' = calls
           /\ cache' = cache
           /\ ctx' = ctx
           /\ decoded' = decoded]_vars

\* after a first call that played and filled the cache, a call with master
\* volume 0 and nothing else against it has left no activation
C4_Witness ==
    /\ ncalls = 2 /\ Len(calls) = 1
    /\ calls[1].started /\ cache # << >>
    /\ last.op = "playMisskeySfxFile"
    /\ last.store.sound_masterVolume = 0
    /\ last.sound.type = DriveFile /\ last.sound.fileUrl # "" /\ last.sound.volume > 0
    /\ ~MutePolicy(last.store, last.visibilityState)

\* ----------------------------------------------------------------------- C5
\* C5: isMute is true exactly when notUseSound is set, or
\* useSoundOnlyWhenActive is set and the page is hidden; every
\* playMisskeySfxFile call decides on the settings and visibility it is
\* given: muted, it starts no activation; not muted, with a playable
\* descriptor and non-zero volumes, it goes on to loadAudio, and a call that
\* got a buffer has started its source.
C5_Mute ==
    [][/\ Invoked("playMisskeySfxFile")
          => /\ isMute(last'.store, last'.visibilityState)
                  = MutePolicy(last'.store, last'.visibilityState)
             /\ MutePolicy(last'.store, last'.visibilityState) => calls' = calls
             /\ (/\ ~MutePolicy(last'.store, last'.visibilityState)
                 /\ last'.sound.type # Null
                 /\ ~(last'.sound.type = DriveFile /\ last'.sound.fileUrl = "")
                 /\ last'.store.sound_masterVolume # 0
                 /\ last'.sound.volume # 0)
                  => /\ Appended
                     /\ NewCall.pc \in {"fetch", "loaded"}
                     /\ NewCall.url = SoundUrl(last'.sound)
       /\ \A i \in DOMAIN calls' :
             (calls'[i].pc = "done" /\ calls'[i].buffer # NoBuffer)
                => calls'[i].started]_vars

\* a call muted by useSoundOnlyWhenActive on a hidden page, made after a
\* call with the same flag on a visible page has played
C5_Witness ==
    /\ ncalls = 2 /\ Len(calls) = 1
    /\ calls[1].started
    /\ last.op = "playMisskeySfxFile"
    /\ ~last.store.sound_notUseSound
    /\ last.store.sound_useSoundOnlyWhenActive /\ last.visibilityState = "hidden"
    /\ last.sound.type # Null /\ last.sound.volume > 0 /\ last.store.sound_masterVolume > 0

\* ----------------------------------------------------------------------- C6
\* C6: a drive-file load whose fetch failed has fetched twice, the stored
\* url and then the url looked up again by file id, before it returns
\* nothing.
C6_Fallback ==
    \A i \in DOMAIN calls :
        (/\ calls[i].kind = "playMisskeySfxFile"
         /\ calls[i].url \in FileUrls
         /\ calls[i].fail = "fetch")
          => calls[i].fetches = 2

\* ----------------------------------------------------------------------- C7
\* C7: an activation whose fetch failed does not reject, has no buffer and
\* starts nothing; an activation whose decode failed is rejected and starts
\* nothing.
C7_Failures ==
    \A i \in DOMAIN calls :
        /\ calls[i].fail = "fetch"
             => /\ calls[i].outcome # "rejected"
                /\ calls[i].buffer = NoBuffer
                /\ ~calls[i].started
                /\ calls[i].pc \in {"settled", "cooldown", "done"}
                     => calls[i].outcome = "resolved"
        /\ calls[i].fail = "decode"
             => /\ calls[i].outcome = "rejected"
                /\ calls[i].pc # "loaded"
                /\ ~calls[i].started

\* one play call ended silently on a fetch failure, another was rejected on
\* a decode failure
C7_Witness ==
    \E i, j \in DOMAIN calls :
        /\ calls[i].kind # "loadAudio"
        /\ calls[i].fail = "fetch" /\ calls[i].pc = "done" /\ calls[i].outcome = "resolved"
        /\ calls[j].kind # "loadAudio"
        /\ calls[j].fail = "decode" /\ calls[j].outcome = "rejected"

\* ----------------------------------------------------------------------- C8
\* C8: the gain of a source playMisskeySfxFile has started is the
\* descriptor's volume times the master volume read at the call (volume
\* levels v/VolSteps, the gain in units of 1/VolSteps^2).
C8_Gain ==
    \A i \in DOMAIN calls :
        (calls[i].kind = "playMisskeySfxFile" /\ calls[i].started)
          => /\ calls[i].gain = calls[i].volume * calls[i].masterVolume
             /\ (i = Len(calls) /\ last.sound.volume # 0 /\ last.store.sound_masterVolume # 0)
                  => calls[i].gain = last.sound.volume * last.store.sound_masterVolume

\* a source started with descriptor volume 1 and master volume 1/VolSteps:
\* its gain is 1/VolSteps
C8_Witness ==
    \E i \in DOMAIN calls :
        /\ calls[i].kind = "playMisskeySfxFile" /\ calls[i].started
        /\ calls[i].volume = VolSteps /\ calls[i].masterVolume = 1
        /\ calls[i].gain = VolSteps

\* ----------------------------------------------------------------------- C9
\* C9: at most one AudioContext is ever created; it exists exactly when some
\* call has reached loadAudio.
C9_OneContext ==
    /\ ctx \in {0, 1}
    /\ ctx = 1 <=> \E i \in DOMAIN calls : ReachedLoad(calls[i])

\* two calls have reached loadAudio and there is one context
C9_Witness ==
    /\ ctx = 1
    /\ \E i, j \in DOMAIN calls :
          i # j /\ ReachedLoad(calls[i]) /\ ReachedLoad(calls[j])

\* ---------------------------------------------------------------------- C10
\* C10: a playMisskeySfx call that finds a "no sound" descriptor, the lock
\* held, or a navigator reporting no user activation leaves the lock and
\* everything else as it is; any other call takes the lock in the step that
\* starts its playback attempt, and the lock is held while a playMisskeySfx
\* load is in flight.
C10_Guard ==
    [][/\ Invoked("playMisskeySfx")
          => IF \/ last'.sound.type = Null
                \/ ~canPlay
                \/ (last'.navigator.hasUserActivation /\ ~last'.navigator.hasBeenActive)
             THEN /\ canPlay' = canPlay
                  /\ calls' = calls /\ cache' = cache /\ ctx' = ctx
             ELSE /\ canPlay /\ ~canPlay'
                  /\ Appended /\ NewCall.kind = "playMisskeySfx"
       /\ \A i \in DOMAIN calls' :
             (calls'[i].kind = "playMisskeySfx"
                /\ calls'[i].pc \in {"fetch", "body", "decode", "loaded"})
               => ~canPlay']_vars

\* a call with a sound and an active user found the lock held and left no
\* activation, the earlier call's load still being in flight
C10_Witness ==
    /\ last.op = "playMisskeySfx"
    /\ ~last.canPlay
    /\ last.sound.type # Null
    /\ last.navigator = Active
    /\ ncalls = 2 /\ Len(calls) = 1
    /\ calls[1].pc = "fetch"


\* ---------------------------------------------------------------------- C11
\* C11: a playUrl call with volume 0 starts no activation and changes
\* nothing; with any other volume, or none, it goes on to loadAudio whatever
\* the mute policy, the master volume and the play lock are, it leaves the
\* lock as it is, and once it has a buffer it starts its source.
C11_Raw ==
    [][/\ Invoked("playUrl")
          => IF last'.volume = 0
             THEN calls' = calls /\ cache' = cache /\ ctx' = ctx
             ELSE /\ Appended
                  /\ NewCall.kind = "playUrl"
                  /\ NewCall.pc \in {"fetch", "loaded"}
                  /\ canPlay' = canPlay
       /\ \A i \in DOMAIN calls' :
             (calls'[i].kind = "playUrl" /\ calls'[i].pc = "done"
                /\ calls'[i].buffer # NoBuffer)
               => calls'[i].started]_vars

\* the play lock held by a playMisskeySfx call still fetching, a playUrl
\* call made with notUseSound set has started its source
C11_Witness ==
    /\ ncalls = 2 /\ Len(calls) = 2
    /\ calls[1].kind = "playMisskeySfx" /\ calls[1].pc = "fetch"
    /\ ~canPlay /\ ~last.canPlay
    /\ last.op = "playUrl" /\ last.store.sound_notUseSound
    /\ calls[2].kind = "playUrl" /\ calls[2].started

\* a playUrl call made with master volume 0 has started its source
C11_WitnessMaster ==
    /\ last.op = "playUrl" /\ last.store.sound_masterVolume = 0
    /\ calls # << >> /\ calls[Len(calls)].kind = "playUrl" /\ calls[Len(calls)].started
    /\ Len(calls) = ncalls


\* ---------------------------------------------------------------------- C12
\* C12: when awaited operations settle and timers fire, the play lock, once
\* taken, is released again, however the playback attempt ends; it is
\* released only by the timer of a playMisskeySfx activation whose playback
\* attempt is over and whose 25 ms have run out, and is held as long as such
\* an activation has not set its timer.
C12_Release ==
    /\ (~canPlay ~> canPlay)
    /\ [][/\ (~canPlay /\ canPlay')
               => \E i \in DOMAIN calls :
                     /\ calls[i].kind = "playMisskeySfx"
                     /\ calls[i].pc = "cooldown" /\ calls[i].remaining = 0
                     /\ calls[i].outcome # "pending"
                     /\ calls'[i].pc = "done"
                     /\ ReachedLoad(calls[i]) => sinceSfxLoad >= Cooldown
          /\ \A i \in DOMAIN calls' :
                (calls'[i].kind = "playMisskeySfx"
                   /\ calls'[i].pc \in {"fetch", "body", "decode", "loaded", "settled"})
                  => ~canPlay']_vars

\* the lock is free again after an attempt that was rejected, after one that
\* played and after one that was muted
C12_Witness ==
    /\ canPlay
    /\ \E i \in DOMAIN calls :
          /\ calls[i].kind = "playMisskeySfx" /\ calls[i].pc = "done"
          /\ calls[i].outcome = "rejected" /\ calls[i].fail = "decode"
    /\ \E i \in DOMAIN calls :
          /\ calls[i].kind = "playMisskeySfx" /\ calls[i].pc = "done"
          /\ (calls[i].started \/ ~ReachedLoad(calls[i]))


\* ---------------------------------------------------------------------- C13
\* C13: cached loads of one url that start before any of them has stored
\* each fetch and decode for themselves (a load that does not fetch has
\* taken its buffer from an entry an earlier load stored), each stores, and
\* the entry is the buffer of the load that completed last.
C13_Race ==
    /\ \A i, j \in DOMAIN calls :
          (i # j /\ Stored(calls[i]) /\ Stored(calls[j]))
            => calls[i].buffer # calls[j].buffer
    /\ \A i \in DOMAIN calls :
          (calls[i].useCache /\ ReachedLoad(calls[i]) /\ calls[i].fetches = 0)
            => \E j \in StoredLoads(calls[i].url) : j < i /\ calls[j].buffer = calls[i].buffer
    /\ \A i \in DOMAIN calls :
          Stored(calls[i])
            => /\ calls[i].url \in DOMAIN cache
               /\ cache[calls[i].url] = LastStored(calls[i].url)

\* two cached loads of one url have both fetched and stored; the one invoked
\* first completed last and its buffer is the entry
C13_Witness ==
    \E i, j \in DOMAIN calls :
        /\ i < j
        /\ calls[i].url = calls[j].url
        /\ Stored(calls[i]) /\ Stored(calls[j])
        /\ calls[i].buffer.id > calls[j].buffer.id
        /\ cache[calls[i].url] = calls[i].buffer

\* ---------------------------------------------------------------------- C14
\* C14: a url in the cache stays in the cache, and its entry changes only
\* when a cached load of that url completes its decode.
C14_NoEviction ==
    [][\A k \in DOMAIN cache :
          /\ k \in DOMAIN cache'
          /\ cache'[k] # cache[k]
               => \E i \in DOMAIN calls :
                     /\ calls[i].pc = "decode" /\ calls[i].useCache /\ calls[i].url = k
                     /\ calls'[i].buffer = cache'[k]]_vars

\* the cache holds two urls, one of them stored before the other
C14_Witness ==
    /\ Cardinality(DOMAIN cache) = 2
    /\ \A k \in DOMAIN cache : cache[k].url = k

\* ---------------------------------------------------------------------- C15
\* C15: the promise of getSoundDuration is resolved exactly when a callback
\* has read readyState > 0; that happens at most once per probe, at the
\* first callback run after the platform reported the metadata, and from
\* then on the interval is cleared and the element removed; until then the
\* promise is pending, the interval is set and the element is kept, for as
\* long as the platform reports nothing.
C15_Probe ==
    /\ [](\A i \in DOMAIN probes :
            /\ probes[i].seen <= 1
            /\ (probes[i].outcome = "resolved") <=> (probes[i].seen = 1)
            /\ probes[i].outcome = "resolved"
                 => /\ probes[i].readyState > 0
                    /\ probes[i].value = probes[i].duration * 1000
                    /\ ~probes[i].interval /\ probes[i].removed
            /\ probes[i].outcome = "pending"
                 => probes[i].interval /\ ~probes[i].removed
            /\ (probes[i].polls > 0 /\ probes[i].polls < MaxPolls /\ probes[i].readyState = 0)
                 => probes[i].outcome = "pending")
    /\ [][\A i \in DOMAIN probes :
            (probes[i].readyState > 0 /\ probes'[i].polls > probes[i].polls)
              => probes'[i].outcome = "resolved"]_vars
    /\ \A i \in 1..MaxProbes :
          (i \in DOMAIN probes /\ probes[i].readyState > 0)
            ~> (i \in DOMAIN probes /\ probes[i].outcome = "resolved")

\* one probe resolved at a callback after callbacks that saw nothing, while
\* another, never reported ready, is still polling
C15_Witness ==
    \E i, j \in DOMAIN probes :
        /\ probes[i].outcome = "resolved" /\ probes[i].polls > 1
        /\ probes[j].outcome = "pending" /\ probes[j].polls = MaxPolls
        /\ probes[j].readyState = 0

\* ---------------------------------------------------------------------- C16
\* C16: a cached load of an uploaded file that starts after a cached load of
\* the same file has stored, under whichever of the file's urls, performs no
\* fetch.
C16_FileKey ==
    [][(/\ Appended
        /\ NewCall.useCache
        /\ \E j \in DOMAIN calls :
              Stored(calls[j]) /\ FileOf(calls[j].url) = FileOf(NewCall.url))
         => NewCall.fetches = 0]_vars

\* ---------------------------------------------------------------------- C17
\* C17: at most one playMisskeySfx activation is between taking the lock
\* and the firing of its timer, so at most one is awaiting its sound and at
\* most one timer is pending; while canPlay is true there is none of either.
SfxInFlight ==
    {i \in DOMAIN calls :
        /\ calls[i].kind = "playMisskeySfx"
        /\ calls[i].pc \in {"fetch", "body", "decode", "loaded", "settled"}}

C17_OneAttempt ==
    /\ Cardinality(SfxPending) <= 1
    /\ Cardinality(SfxInFlight) <= 1
    /\ Cardinality(Timers) <= 1
    /\ canPlay => (SfxInFlight = {} /\ Timers = {})

\* an attempt has run to the end, the next one holds the lock, and the
\* latest call found the lock taken and returned
C17_Witness ==
    /\ \E i \in DOMAIN calls : calls[i].kind = "playMisskeySfx" /\ calls[i].pc = "done"
    /\ Cardinality(SfxPending) = 1
    /\ ~canPlay
    /\ last.op = "playMisskeySfx" /\ ~last.canPlay
    /\ last.sound.type # Null /\ last.navigator = Active

\* ---------------------------------------------------------------------- C18
\* C18: every cache entry under url k is a decoded buffer of k, produced by
\* a cached load of k whose fetch, body and decode all succeeded; a step in
\* which a load fails leaves the cache as it was, as does every step of a
\* load until its decode succeeds.
C18_OnlyDecoded ==
    /\ [](\A k \in DOMAIN cache :
            /\ cache[k] # NoBuffer
            /\ cache[k].url = k
            /\ \E i \in StoredLoads(k) :
                  calls[i].buffer = cache[k] /\ calls[i].fail = "none")
    /\ [][\A i \in DOMAIN calls :
            (calls'[i] # calls[i] /\ calls'[i].buffer = NoBuffer)
              => cache' = cache]_vars

\* a load of a url failed at the fetch and another at the decode, and the
\* cache holds that url from a third load alone
C18_Witness ==
    \E i, j \in DOMAIN calls, k \in DOMAIN cache :
        /\ calls[i].url = k /\ calls[i].useCache /\ calls[i].fail = "fetch"
        /\ calls[j].url = k /\ calls[j].useCache /\ calls[j].fail = "decode"
        /\ Cardinality(StoredLoads(k)) = 1

\* ---------------------------------------------------------------------- C19
\* C19: a source node is created only by the continuation of a
\* playMisskeySfxFile or playUrl activation whose own loadAudio call has
\* returned a buffer, and ctx is set by then; the continuation leaves ctx
\* as it is.
C19_CtxBeforeGraph ==
    /\ [](\A i \in DOMAIN calls :
            calls[i].started
              => /\ ctx >= 1
                 /\ ReachedLoad(calls[i])
                 /\ calls[i].buffer # NoBuffer
                 /\ calls[i].kind # "loadAudio")
    /\ [][\A i \in DOMAIN calls :
            (~calls[i].started /\ calls'[i].started)
              => /\ calls[i].pc = "loaded"
                 /\ ctx >= 1
                 /\ ctx' = ctx]_vars

\* playUrl and playMisskeySfxFile have each started a source node
C19_Witness ==
    \E i, j \in DOMAIN calls :
        /\ calls[i].kind = "playUrl" /\ calls[i].started
        /\ calls[j].kind = "playMisskeySfxFile" /\ calls[j].started
        /\ ctx = 1

====
